---------------------------- MODULE Spec2Model ----------------------------
(***************************************************************************)
(* Model of the description generator's validation pipeline and of the     *)
(* retry loop of its f5xc adapter:                                         *)
(*   src/description_generator/validation.py   DescriptionValidator        *)
(*   src/description_generator/f5xc_compat.py  apply_synonyms,             *)
(*                                             noun_first_transform,       *)
(*                                             F5XCAdapter                 *)
(*   src/description_generator/generator.py    generate_raw                *)
(*   src/description_generator/config.py       TIER_CONFIGS                *)
(*                                                                         *)
(* Python str values are TLA+ strings; Len, SubSeq and \o act on them as   *)
(* len(), slicing and +.  The texts of the model are ASCII, where          *)
(* str.lower() and re.IGNORECASE agree with the letter table below.        *)
(***************************************************************************)
EXTENDS Integers, Sequences, FiniteSets, TLC

(***************************************************************************)
(* Python str primitives                                                   *)
(***************************************************************************)

\* s[i-1] of Python, as a one-character string ("" when out of range)
CharAt(s, i) == IF i >= 1 /\ i <= Len(s) THEN SubSeq(s, i, i) ELSE ""

UpperLetters == <<"A","B","C","D","E","F","G","H","I","J","K","L","M",
                  "N","O","P","Q","R","S","T","U","V","W","X","Y","Z">>
LowerLetters == <<"a","b","c","d","e","f","g","h","i","j","k","l","m",
                  "n","o","p","q","r","s","t","u","v","w","x","y","z">>
Digits == {"0","1","2","3","4","5","6","7","8","9"}

UpperSet == {UpperLetters[i] : i \in 1..26}
LowerSet == {LowerLetters[i] : i \in 1..26}

ToLowerMap == [c \in UpperSet |-> LowerLetters[CHOOSE i \in 1..26 : UpperLetters[i] = c]]
ToUpperMap == [c \in LowerSet |-> UpperLetters[CHOOSE i \in 1..26 : LowerLetters[i] = c]]

LowerChar(c) == IF c \in UpperSet THEN ToLowerMap[c] ELSE c
UpperChar(c) == IF c \in LowerSet THEN ToUpperMap[c] ELSE c

\* str.islower() of one character
IsLowerChar(c) == c \in LowerSet

\* the characters str.strip() removes and str.split() splits on: those
\* str.isspace() holds for.  A string of this module holds characters up to
\* U+00FF; the ones written raw are named at the end of their line.
Whitespace ==
  {" ", "\t", "\n", "\r", "\f",
   "",    \* U+000B, line tabulation
   "",    \* U+001C, file separator
   "",    \* U+001D, group separator
   "",    \* U+001E, record separator
   "",    \* U+001F, unit separator
   "",    \* U+0085, next line
   " "}    \* U+00A0, no-break space
IsSpace(c) == c \in Whitespace

\* \w of the re module
WordChars == UpperSet \cup LowerSet \cup Digits \cup {"_"}
IsWordChar(c) == c \in WordChars

RECURSIVE MapChars(_, _, _, _)
\* the characters lo..hi of s, each mapped by upper (TRUE) or lower (FALSE)
MapChars(s, lo, hi, upper) ==
  IF lo > hi THEN ""
  ELSE IF lo = hi
       THEN IF upper THEN UpperChar(CharAt(s, lo)) ELSE LowerChar(CharAt(s, lo))
       ELSE LET mid == (lo + hi) \div 2
            IN MapChars(s, lo, mid, upper) \o MapChars(s, mid + 1, hi, upper)

\* str.lower()
Lower(s) == MapChars(s, 1, Len(s), FALSE)

\* str.capitalize(): first character upper-cased, the rest lower-cased
Capitalize(s) ==
  IF Len(s) = 0 THEN ""
  ELSE MapChars(s, 1, 1, TRUE) \o MapChars(s, 2, Len(s), FALSE)

\* the number of leading (trailing) whitespace characters of s
LeadingSpaces(s) ==
  CHOOSE k \in 0..Len(s) :
    /\ k = Len(s) \/ ~IsSpace(CharAt(s, k + 1))
    /\ \A j \in 1..k : IsSpace(CharAt(s, j))

TrailingSpaces(s) ==
  CHOOSE k \in 0..Len(s) :
    /\ k = Len(s) \/ ~IsSpace(CharAt(s, Len(s) - k))
    /\ \A j \in 1..k : IsSpace(CharAt(s, Len(s) + 1 - j))

\* str.strip()
Strip(s) ==
  IF LeadingSpaces(s) = Len(s) THEN ""
  ELSE SubSeq(s, LeadingSpaces(s) + 1, Len(s) - TrailingSpaces(s))

\* len(s.split()): the number of maximal runs of non-whitespace
WordCount(s) ==
  Cardinality({i \in 1..Len(s) :
                 ~IsSpace(CharAt(s, i)) /\ (i = 1 \/ IsSpace(CharAt(s, i - 1)))})

\* str.startswith / str.endswith
StartsWith(s, p) == Len(p) <= Len(s) /\ SubSeq(s, 1, Len(p)) = p
EndsWith(s, p) == Len(p) <= Len(s) /\ SubSeq(s, Len(s) - Len(p) + 1, Len(s)) = p

\* pattern p occurs in s at position i (both already lower-cased by the caller
\* for a case-insensitive match)
MatchAt(s, p, i) == i >= 1 /\ i + Len(p) - 1 <= Len(s) /\ SubSeq(s, i, i + Len(p) - 1) = p

\* \b of the re module at the gap before position i
Boundary(s, i) == IsWordChar(CharAt(s, i - 1)) # IsWordChar(CharAt(s, i))

\* the positions of s at which \b matches
Boundaries(s) == {i \in 1..(Len(s) + 1) : Boundary(s, i)}

RECURSIVE Replace(_, _, _)
\* str.replace(a, b) for a non-empty a: every occurrence, leftmost first,
\* none overlapping
Replace(s, a, b) ==
  IF Len(s) < Len(a) THEN s
  ELSE IF SubSeq(s, 1, Len(a)) = a
       THEN b \o Replace(SubSeq(s, Len(a) + 1, Len(s)), a, b)
       ELSE SubSeq(s, 1, 1) \o Replace(SubSeq(s, 2, Len(s)), a, b)

\* the characters re.escape puts a backslash before (the last is U+000B)
SpecialChars ==
  {"(", ")", "[", "]", "{", "}", "?", "*", "+", "-", "|", "^", "$", "\\", ".",
   "&", "~", "#", " ", "\t", "\n", "\r", "\f", ""}

RECURSIVE re_escape(_)
\* re.escape(s)
re_escape(s) ==
  IF s = "" THEN ""
  ELSE (IF SubSeq(s, 1, 1) \in SpecialChars THEN "\\" ELSE "")
         \o SubSeq(s, 1, 1) \o re_escape(SubSeq(s, 2, Len(s)))

\* A compiled pattern: its text (pattern.pattern), the text it matches
\* literally, and that text case-folded for the re.IGNORECASE match.
\* re.compile(r'\bt\b', re.IGNORECASE) for an entry t of a class table:
Compile(t) == [pattern |-> "\\b" \o t \o "\\b", literal |-> t, folded |-> Lower(t)]

\* re.compile(r'^t\b', re.IGNORECASE) for an entry t of BANNED_VERB_STARTS
CompileStart(t) == [pattern |-> "^" \o t \o "\\b", literal |-> t, folded |-> Lower(t)]

\* re.compile(rf'\b{re.escape(term)}\b', re.IGNORECASE) for a custom term
CompileCustom(term) ==
  [pattern |-> "\\b" \o re_escape(term) \o "\\b", literal |-> term, folded |-> Lower(term)]

\* p.search(s) for p = re.compile(r'\bterm\b', re.IGNORECASE), given ls = s
\* lower-cased and bs = Boundaries(ls): a match starts and ends at a \b position
FindWord(ls, bs, p) ==
  \E i \in bs : (i + Len(p.folded)) \in bs /\ MatchAt(ls, p.folded, i)

SearchWord(s, term) == FindWord(Lower(s), Boundaries(Lower(s)), Compile(term))

\* p.match(s) for p = re.compile(r'^term\b', re.IGNORECASE), given ls = s lower-cased
FindStartWord(ls, p) ==
  MatchAt(ls, p.folded, 1) /\ Boundary(ls, 1 + Len(p.folded))

MatchStartWord(s, term) == FindStartWord(Lower(s), CompileStart(term))

\* the messages f"{prefix}{match}" of the patterns seq, match being
\*   layer "banned":   pattern.pattern.replace(r'\b', '').replace('\\', '')
\*   layer "verb":     pattern.pattern.replace('^', '').replace(r'\b', '')
\*   layer "self_ref": pattern.pattern.replace(r'\b', '')
Shown(layer, p) ==
  CASE layer = "banned"   -> Replace(Replace(p.pattern, "\\b", ""), "\\", "")
    [] layer = "verb"     -> Replace(Replace(p.pattern, "^", ""), "\\b", "")
    [] layer = "self_ref" -> Replace(p.pattern, "\\b", "")

Prefixed(prefix, layer, seq) == [i \in 1..Len(seq) |-> prefix \o Shown(layer, seq[i])]

(***************************************************************************)
(* config.py: tier length bands                                            *)
(***************************************************************************)

Tiers == {"short", "medium", "long"}

\* the order in which dicts keyed by tier are iterated
TierOrder == <<"short", "medium", "long">>

TIER_CONFIGS ==
  [short  |-> [min_chars |-> 35,  max_chars |-> 60],
   medium |-> [min_chars |-> 100, max_chars |-> 150],
   long   |-> [min_chars |-> 350, max_chars |-> 500]]

get_tier_config(tier) == TIER_CONFIGS[tier]

(***************************************************************************)
(* validation.py: rule tables.  A banned or self-referential entry t is    *)
(* the pattern \bt\b, a verb entry t the pattern ^t\b.                     *)
(***************************************************************************)

BANNED_TERMS ==
  <<"F5", "XC", "F5XC", "Distributed Cloud",
    "BIG-IP", "NGINX", "Volterra",
    "world-class", "market-leading", "cutting-edge",
    "next-generation", "state-of-the-art", "seamless",
    "robust", "powerful", "comprehensive",
    "innovative", "scalable", "flexible",
    "simplifies", "streamlines", "empowers",
    "unparalleled", "ultimate", "superior",
    "best", "worst", "most", "least",
    "fastest", "slowest", "easiest",
    "in order to", "able to", "helps to",
    "allows you to", "enables you to",
    "designed to", "used to",
    "API", "REST", "Endpoint">>

BANNED_VERB_STARTS ==
  <<"Configure", "Manage", "Create", "Delete",
    "Update", "Get", "Set", "Enable",
    "Disable", "Add", "Remove", "Edit",
    "Modify", "Define", "Specify", "Select",
    "Use", "Apply", "View", "List",
    "This", "The", "A", "An">>

SELF_REFERENTIAL ==
  <<"this field", "this property", "this setting",
    "this option", "this parameter", "this value",
    "the field", "the property", "the setting",
    "specifies the", "defines the", "sets the",
    "contains the", "holds the", "stores the">>

\* Python None
None == [none |-> TRUE]

(***************************************************************************)
(* validation.py: DescriptionValidator                                     *)
(***************************************************************************)

\* [re.compile(p, re.IGNORECASE) for p in terms]
CompileAll(terms) == [i \in 1..Len(terms) |-> Compile(terms[i])]
CompileAllStart(terms) == [i \in 1..Len(terms) |-> CompileStart(terms[i])]
CompileAllCustom(terms) == [i \in 1..Len(terms) |-> CompileCustom(terms[i])]

\* DescriptionValidator.__init__: the instance's own pattern lists.  No custom
\* term is an empty list; a custom term t is compiled to \b + re.escape(t) + \b.
DescriptionValidator(strict_mode, custom_banned_terms) ==
  [strict_mode       |-> strict_mode,
   banned_patterns   |-> CompileAll(BANNED_TERMS) \o CompileAllCustom(custom_banned_terms),
   verb_patterns     |-> CompileAllStart(BANNED_VERB_STARTS),
   self_ref_patterns |-> CompileAll(SELF_REFERENTIAL)]

\* DescriptionValidator._is_complete_thought
incomplete_endings ==
  <<" and", " or", " but", " with", " for", " to",
    " the", " a", " an", " in", " on", " at">>

_is_complete_thought(text) ==
  LET content == Strip(text)
      content_lower == Lower(content)
  IN IF Len(content) < 10 THEN FALSE
     ELSE IF \E k \in 1..Len(incomplete_endings) :
                EndsWith(content_lower, incomplete_endings[k]) THEN FALSE
     ELSE IF IsLowerChar(CharAt(content, 1)) THEN FALSE
     ELSE TRUE


\* variant: the pattern text is matched as written, with no case folding
BannedErrors_CaseSensitive(self, ls, bs) ==
  Prefixed("Banned term: ", "banned",
           SelectSeq(self.banned_patterns,
                     LAMBDA t : FindWord(ls, bs, [t EXCEPT !.folded = t.literal])))

\* Layer 1: one error per banned pattern found, in pattern order
\* (ls is the content lower-cased, bs its \b positions)
BannedErrors(self, ls, bs) ==
  Prefixed("Banned term: ", "banned",
           SelectSeq(self.banned_patterns, LAMBDA t : FindWord(ls, bs, t)))

\* Layer 1b: one warning per verb/article pattern matching at the start
VerbWarnings(self, ls) ==
  Prefixed("Starts with verb/article: ", "verb",
           SelectSeq(self.verb_patterns, LAMBDA t : FindStartWord(ls, t)))

\* variant: a self-referential pattern is only looked for at the start
SelfRefWarnings_StartOnly(self, ls, bs) ==
  Prefixed("Self-referential: ", "self_ref",
           SelectSeq(self.self_ref_patterns, LAMBDA t : FindStartWord(ls, t)))

\* Layer 2: one warning per self-referential pattern found
SelfRefWarnings(self, ls, bs) ==
  Prefixed("Self-referential: ", "self_ref",
           SelectSeq(self.self_ref_patterns, LAMBDA t : FindWord(ls, bs, t)))


\* variant: the band edges themselves are rejected
LengthErrors_Inclusive(char_count, config) ==
  IF char_count <= config.min_chars
  THEN <<"Too short: " \o ToString(char_count) \o " < "
           \o ToString(config.min_chars) \o " chars">>
  ELSE IF char_count >= config.max_chars
  THEN <<"Too long: " \o ToString(char_count) \o " > "
           \o ToString(config.max_chars) \o " chars">>
  ELSE <<>>

\* Layer 3: character band, then the word minimum
LengthErrors(char_count, config) ==
  IF char_count < config.min_chars
  THEN <<"Too short: " \o ToString(char_count) \o " < "
           \o ToString(config.min_chars) \o " chars">>
  ELSE IF char_count > config.max_chars
  THEN <<"Too long: " \o ToString(char_count) \o " > "
           \o ToString(config.max_chars) \o " chars">>
  ELSE <<>>

WordErrors(word_count) ==
  IF word_count < 3
  THEN <<"Too few words: " \o ToString(word_count) \o " < " \o ToString(3)>>
  ELSE <<>>

RECURSIVE ReplaceChar(_, _, _)
\* str.replace(a, b) for a one-character a
ReplaceChar(s, a, b) ==
  LET hits == {i \in 1..Len(s) : CharAt(s, i) = a}
  IN IF hits = {} THEN s
     ELSE LET i == CHOOSE h \in hits : \A j \in hits : h <= j
          IN SubSeq(s, 1, i - 1) \o b \o ReplaceChar(SubSeq(s, i + 1, Len(s)), a, b)

\* Layer 4: only the field name is normalised; the content is lower-cased.
\* field_name "" stands for None and for the empty name (both falsy).
CircularErrors(content_lower, field_name) ==
  IF field_name = "" THEN <<>>
  ELSE LET field_lower == ReplaceChar(ReplaceChar(Lower(field_name), "_", " "), "-", " ")
       IN IF StartsWith(content_lower, field_lower) \/ content_lower = field_lower
          THEN <<"Circular definition: repeats field name '" \o field_name \o "'">>
          ELSE <<>>

\* Layer 5
ThoughtWarnings(content) ==
  IF ~_is_complete_thought(content) THEN <<"May not be a complete thought">> ELSE <<>>


\* variant: warnings are promoted whatever the mode
PromoteWarnings_Always(strict_mode, errors, warnings) ==
  [errors |-> errors \o warnings, warnings |-> <<>>]

\* variant: warnings are appended to the errors but not cleared
PromoteWarnings_KeepWarnings(strict_mode, errors, warnings) ==
  IF strict_mode THEN [errors |-> errors \o warnings, warnings |-> warnings]
  ELSE [errors |-> errors, warnings |-> warnings]

\* strict mode: errors.extend(warnings); warnings = []
PromoteWarnings(strict_mode, errors, warnings) ==
  IF strict_mode THEN [errors |-> errors \o warnings, warnings |-> <<>>]
  ELSE [errors |-> errors, warnings |-> warnings]

\* DescriptionValidator.validate
validate(self, text, tier, field_name) ==
  LET content == Strip(text)
      char_count == Len(content)
      word_count == WordCount(content)
      config == get_tier_config(tier)
      ls == Lower(content)
      bs == Boundaries(ls)
      errors == BannedErrors(self, ls, bs)
                \o LengthErrors(char_count, config)
                \o WordErrors(word_count)
                \o CircularErrors(ls, field_name)
      warnings == VerbWarnings(self, ls)
                  \o SelfRefWarnings(self, ls, bs)
                  \o ThoughtWarnings(content)
      final == PromoteWarnings(self.strict_mode, errors, warnings)
  IN [is_valid   |-> Len(final.errors) = 0,
      tier       |-> tier,
      content    |-> content,
      char_count |-> char_count,
      word_count |-> word_count,
      errors     |-> final.errors,
      warnings   |-> final.warnings]

\* variant: the key being in the mapping is enough
Truthy_KeyOnly(v) == TRUE

\* DescriptionValidator.validate_batch: a verdict for each tier whose key is in
\* the mapping with a truthy value, None for the others.  A JSON value is
\* [type, value]; type "str" carries a Python str, the others no text.
Truthy(v) == v.type = "str" /\ v.value # ""

validate_batch(self, descriptions, field_name) ==
  [key \in Tiers |->
     IF key \in DOMAIN descriptions /\ Truthy(descriptions[key])
     THEN validate(self, descriptions[key].value, key, field_name)
     ELSE None]

\* BatchValidationResult.valid_count / total_count / all_valid
valid_count(batch) ==
  Cardinality({key \in Tiers : batch[key] # None /\ batch[key].is_valid})

total_count(batch) == Cardinality({key \in Tiers : batch[key] # None})

all_valid(batch) == \A key \in Tiers : batch[key] # None => batch[key].is_valid

\* validate_descriptions(descriptions, strict)
validate_descriptions(descriptions, strict) ==
  validate_batch(DescriptionValidator(strict, <<>>), descriptions, "")

(***************************************************************************)
(* f5xc_compat.py: post-processing                                         *)
(***************************************************************************)

F5XC_BANNED_VERB_STARTS ==
  <<"Configure", "Manage", "Create", "Delete", "Update", "Get", "Set",
    "Enable", "Disable", "Add", "Remove", "Edit", "Modify", "Define",
    "Specify", "Select", "Use", "Apply", "View", "List", "Show",
    "Enter", "Input", "Provide", "Submit", "Save", "Load", "Read",
    "Write", "Execute", "Run", "Start", "Stop", "Restart">>

\* the dict in insertion order, as (original, replacement) pairs
F5XC_SYNONYMS ==
  << <<"API endpoint", "service interface">>,
     <<"REST API", "web service">>,
     <<"JSON object", "data structure">>,
     <<"HTTP request", "service call">>,
     <<"HTTP response", "service response">>,
     <<"seamless integration", "compatible connection">>,
     <<"robust solution", "reliable system">>,
     <<"powerful feature", "capability">>,
     <<"comprehensive suite", "tool set">>,
     <<"scalable architecture", "distributed design">>,
     <<"Configure", "Configuration for">>,
     <<"Manage", "Management of">>,
     <<"Enable", "Control to enable">>,
     <<"Disable", "Control to disable">>,
     <<"Create", "Creation of">>,
     <<"Delete", "Deletion of">>,
     <<"Update", "Update to">> >>

\* key in F5XC_SYNONYMS, and F5XC_SYNONYMS[key]
InSynonyms(key) == \E k \in 1..Len(F5XC_SYNONYMS) : F5XC_SYNONYMS[k][1] = key
SynonymOf(key) ==
  F5XC_SYNONYMS[CHOOSE k \in 1..Len(F5XC_SYNONYMS) : F5XC_SYNONYMS[k][1] = key][2]

RECURSIVE SubIgnoreCase(_, _, _)
\* re.compile(re.escape(original), re.IGNORECASE).sub(replacement, s): every
\* non-overlapping occurrence, leftmost first, replaced; the replacement is
\* not rescanned
SubIgnoreCase(s, original, replacement) ==
  LET ls == Lower(s)
      lo == Lower(original)
      hits == {i \in 1..(Len(s) - Len(lo) + 1) : MatchAt(ls, lo, i)}
  IN IF hits = {} THEN s
     ELSE LET first == CHOOSE i \in hits : \A j \in hits : i <= j
          IN SubSeq(s, 1, first - 1) \o replacement
             \o SubIgnoreCase(SubSeq(s, first + Len(lo), Len(s)), original, replacement)

RECURSIVE ApplyFrom(_, _)
\* the loop of apply_synonyms from pair k on
ApplyFrom(result, k) ==
  IF k > Len(F5XC_SYNONYMS) THEN result
  ELSE ApplyFrom(SubIgnoreCase(result, F5XC_SYNONYMS[k][1], F5XC_SYNONYMS[k][2]), k + 1)

\* apply_synonyms(text)
apply_synonyms(text) == ApplyFrom(text, 1)

\* noun_first_transform(text): the first verb of the list that starts the text
\* (exact case, followed by a space) decides
noun_first_transform(text) ==
  LET hits == {k \in 1..Len(F5XC_BANNED_VERB_STARTS) :
                 StartsWith(text, F5XC_BANNED_VERB_STARTS[k] \o " ")}
  IN IF hits = {} THEN text
     ELSE LET verb == F5XC_BANNED_VERB_STARTS[CHOOSE k \in hits : \A j \in hits : k <= j]
              remainder == SubSeq(text, Len(verb) + 2, Len(text))
          IN IF InSynonyms(verb)
             THEN SynonymOf(verb) \o " " \o remainder
             ELSE Capitalize(remainder) \o " configuration"

\* JSON values of a parsed reply
StrVal(s) == [type |-> "str", value |-> s]
NullVal == [type |-> "null", value |-> ""]

\* variant: the loop keeps the raw value of every tier
PostProcessValue_Raw(v) == v

\* F5XCAdapter._post_process
PostProcessValue(v) ==
  IF v.type = "str"
  THEN StrVal(Strip(noun_first_transform(apply_synonyms(v.value))))
  ELSE v

_post_process(result) == [key \in DOMAIN result |-> PostProcessValue(result[key])]

\* variant: the adapter's short band has drifted from the configured one
AdapterLimits_Drifted ==
  [short  |-> <<35, 80>>,
   medium |-> <<100, 150>>,
   long   |-> <<350, 500>>]

\* the limits dict of _count_valid and of _validate_lengths
AdapterLimits ==
  [short  |-> <<35, 60>>,
   medium |-> <<100, 150>>,
   long   |-> <<350, 500>>]

\* len(result[key]) raises TypeError for a value without a length (JSON null)
LenRaises(result) ==
  \E key \in Tiers : key \in DOMAIN result /\ result[key].type # "str"

\* F5XCAdapter._count_valid (of a result on which len() does not raise)
_count_valid(result) ==
  Cardinality({key \in Tiers :
                 /\ key \in DOMAIN result
                 /\ AdapterLimits[key][1] <= Len(result[key].value)
                 /\ Len(result[key].value) <= AdapterLimits[key][2]})

\* variant: the strict check tests the upper limits only
_validate_lengths_UpperOnly(result) ==
  \A key \in Tiers :
     key \in DOMAIN result => Len(result[key].value) <= AdapterLimits[key][2]

\* F5XCAdapter._validate_lengths (of a result on which len() does not raise)
_validate_lengths(result) ==
  \A key \in Tiers :
     key \in DOMAIN result =>
       ~(\/ Len(result[key].value) < AdapterLimits[key][1]
         \/ Len(result[key].value) > AdapterLimits[key][2])

(***************************************************************************)
(* generator.py: generate_raw                                              *)
(***************************************************************************)

\* DESCRIPTION_SCHEMA["required"]
DESCRIPTION_SCHEMA_required == <<"short", "medium", "long">>

\* DescriptionGenerator._parse_json_response, from json.loads on: data is the
\* parsed object
ParseData(data, required) ==
  IF \E k \in 1..Len(required) : required[k] \notin DOMAIN data THEN None
  ELSE IF Cardinality({key \in DOMAIN data :
                         data[key].type = "str" /\ WordCount(data[key].value) >= 3}) = 0
       THEN None
       ELSE data

\* DescriptionGenerator.generate_raw with DESCRIPTION_SCHEMA, on one reply of
\* the model server:
\*   "exception"  the client call raised (timeout, connection error)
\*   "empty"      the reply's content is empty
\*   "notjson"    json.loads raised JSONDecodeError
\*   "data"       json.loads returned the object reply.data
generate_raw(reply) ==
  IF reply.kind = "data" THEN ParseData(reply.data, DESCRIPTION_SCHEMA_required)
  ELSE None

\* A schema argument of generate_raw: whether the dict has a "properties"
\* key, and its "required" list; None when no schema is passed
DESCRIPTION_SCHEMA == [has_properties |-> TRUE, required |-> DESCRIPTION_SCHEMA_required]
RequiredOnlySchema == [has_properties |-> FALSE, required |-> <<"short", "medium", "long">>]

\* if schema and "properties" in schema: required = schema.get("required", [])
CheckedKeys(schema) ==
  IF schema # None /\ schema.has_properties THEN schema.required ELSE <<>>

\* DescriptionGenerator.generate_raw with any schema argument; one more kind
\* of reply:
\*   "nonobject"  json.loads returned a list, a string, a number or null, on
\*                which the key test or data.values() raises; the except
\*                clause of generate_raw returns None
generate_raw_schema(reply, schema) ==
  IF reply.kind = "data" THEN ParseData(reply.data, CheckedKeys(schema))
  ELSE None

(***************************************************************************)
(* The replies of the model server that the retry loop is run against.     *)
(***************************************************************************)

S_OK    == "Network routing configuration for traffic distribution"
S_VERB  == "Configure the load balancer"
S_SMALL == "Load balancer settings"
S_F5    == "F5 load balancer configuration for traffic"
M_OK    == "Load balancer configuration for distributing network traffic. "
           \o "Supports multiple algorithms and health checking."
M_SMALL == "Traffic distribution policy"
L_BLOCK == "Routing policy for traffic between regional gateways and origin pools. "
L_OK    == L_BLOCK \o L_BLOCK \o L_BLOCK \o L_BLOCK \o L_BLOCK
L_SMALL == "Routing policy for regional traffic"

Tiered(s, m, l) == [short |-> s, medium |-> m, long |-> l]
DataReply(data) == [kind |-> "data", data |-> data]
FailReply(kind) == [kind |-> kind, data |-> None]

Replies ==
  << FailReply("exception"),
     FailReply("empty"),
     FailReply("notjson"),
     \* a required key is missing
     DataReply([short |-> StrVal(S_OK), medium |-> StrVal(M_OK)]),
     \* no value of three words
     DataReply(Tiered(StrVal("Hi"), StrVal("Ok then"), StrVal("No"))),
     \* every tier in its band
     DataReply(Tiered(StrVal(S_OK), StrVal(M_OK), StrVal(L_OK))),
     \* the short tier in its band only once post-processed
     DataReply(Tiered(StrVal(S_VERB), StrVal(M_OK), StrVal(L_OK))),
     \* every tier in its band, the short one with a banned term
     DataReply(Tiered(StrVal(S_F5), StrVal(M_OK), StrVal(L_OK))),
     \* one tier in its band
     DataReply(Tiered(StrVal(S_OK), StrVal(M_SMALL), StrVal(L_SMALL))),
     \* two tiers in their bands, with a key the schema does not name
     DataReply([short |-> StrVal(S_OK), medium |-> StrVal(M_OK),
                long |-> StrVal(L_SMALL), title |-> StrVal("Routing policy")]),
     \* two other tiers in their bands
     DataReply(Tiered(StrVal(S_SMALL), StrVal(M_OK), StrVal(L_OK))),
     \* no tier in its band
     DataReply(Tiered(StrVal(S_SMALL), StrVal(M_SMALL), StrVal(L_SMALL))),
     \* one tier in its band, and that one with a banned term
     DataReply(Tiered(StrVal(S_F5), StrVal(M_SMALL), StrVal(L_SMALL))),
     \* a tier whose value is JSON null
     DataReply(Tiered(StrVal(S_OK), StrVal(M_OK), NullVal)) >>

ReplyIds == 1..Len(Replies)

\* `if result:` of the loop: None and the empty dict are falsy
ResultTruthy(result) == result # None /\ DOMAIN result # {}

\* The pure steps of one attempt, tabulated per reply:
\*   result = self.generator.generate_raw(...)
RawResult == [r \in ReplyIds |-> generate_raw(Replies[r])]

\*   result = self._post_process(result)
PostProcessed ==
  [r \in ReplyIds |->
     IF ResultTruthy(RawResult[r]) THEN _post_process(RawResult[r]) ELSE None]

\* the attempt reaches the end of _count_valid without raising
Scored(r) == ResultTruthy(RawResult[r]) /\ ~LenRaises(PostProcessed[r])

\*   valid_count = self._count_valid(result)
ValidCount == [r \in ReplyIds |-> IF Scored(r) THEN _count_valid(PostProcessed[r]) ELSE 0]

\*   self._validate_lengths(result)
LengthsOk == [r \in ReplyIds |-> Scored(r) /\ _validate_lengths(PostProcessed[r])]

(***************************************************************************)
(* f5xc_compat.py: F5XCAdapter.generate                                    *)
(***************************************************************************)

\* the largest max_retries the loop is run with
MaxRetries == 3

VARIABLES
  max_retries,        \* argument of generate
  strict_validation,  \* argument of generate
  attempt,            \* iterations of the for loop started so far
  best_result,        \* local of generate
  best_valid_count,   \* local of generate
  pc,                 \* "loop", "returned" or "raised"
  retval,             \* the value returned (None until then)
  calls,              \* the replies generate_raw was called on, in order
  validator,          \* a DescriptionValidator instance
  v_pc,               \* "idle", "call" (validate called) or "done" (returned)
  v_content,          \* arguments of the validate call
  v_tier,
  v_field,
  v_result,           \* the ValidationResult returned (None until then)
  call_fn,            \* the function of a direct call, "none" when there is none
  call_args,          \* its arguments, by parameter name
  call_pc,            \* "idle", "call" (called) or "done" (returned or raised)
  call_result,        \* what it returned (None until then)
  class_banned_terms, \* the class attribute DescriptionValidator.BANNED_TERMS
  instances,          \* the DescriptionValidator instances constructed, in order
  frames,             \* per concurrent caller, the frame of its validate call
  matrix,             \* the tracker's ExperimentMatrix
  file,               \* the JSON document at the tracker's path (None: no file)
  tracker_op,         \* the tracker operation done last
  loads,              \* how many times the matrix was loaded from the file
  started             \* the run ids start_run has returned to the caller

adapter_vars == <<max_retries, strict_validation, attempt, best_result,
                  best_valid_count, pc, retval, calls>>
validator_vars == <<validator, v_pc, v_content, v_tier, v_field, v_result>>
call_vars == <<call_fn, call_args, call_pc, call_result>>
shared_vars == <<class_banned_terms, instances, frames>>
tracker_vars == <<matrix, file, tracker_op, loads, started>>
vars == <<adapter_vars, validator_vars, call_vars, shared_vars, tracker_vars>>

\* no validate call is under way
ValidatorIdle ==
  /\ validator = DescriptionValidator(FALSE, <<>>)
  /\ v_pc = "idle"
  /\ v_content = ""
  /\ v_tier = "short"
  /\ v_field = ""
  /\ v_result = None

\* no direct call is under way
CallIdle ==
  /\ call_fn = "none"
  /\ call_args = <<>>
  /\ call_pc = "idle"
  /\ call_result = None

\* no validator instance has been constructed, no caller is known
SharedIdle ==
  /\ class_banned_terms = BANNED_TERMS
  /\ instances = <<>>
  /\ frames = <<>>

\* no tracker exists
TrackerIdle ==
  /\ matrix = None
  /\ file = None
  /\ tracker_op = "none"
  /\ loads = 0
  /\ started = {}

\* no generate call is under way
AdapterIdle ==
  /\ max_retries = 0
  /\ strict_validation = FALSE
  /\ attempt = 0
  /\ best_result = None
  /\ best_valid_count = 0
  /\ pc = "idle"
  /\ retval = None
  /\ calls = <<>>

\* best_valid_count = 0
InitialBestCount == 0


\* variant: the loop stops one attempt short of the budget
HasNext_OneShort(n, limit) == n < limit - 1

\* variant: the loop runs one attempt past the budget
HasNext_Inclusive(n, limit) == n <= limit

\* for attempt in range(max_retries)
HasNext(n, limit) == n < limit


\* variant: the latest scored attempt always replaces the best
IsBetter_Always(count, best) == TRUE

\* variant: a later attempt with an equal count replaces the best
IsBetter_OrEqual(count, best) == count >= best

\* if valid_count > best_valid_count
IsBetter(count, best) == count > best


\* variant: only the strict length check returns early
ReturnsNow_StrictOnly(count, strict, lengths_ok) == strict /\ lengths_ok

\* variant: no early return when strict_validation is set
ReturnsNow_LenientOnly(count, strict, lengths_ok) == ~strict /\ count = 3

\* if valid_count == 3: return result
\* if strict_validation and self._validate_lengths(result): return result
ReturnsNow(count, strict, lengths_ok) == count = 3 \/ (strict /\ lengths_ok)

Init ==
  /\ max_retries \in 0..MaxRetries
  /\ strict_validation \in BOOLEAN
  /\ attempt = 0
  /\ best_result = None
  /\ best_valid_count = InitialBestCount
  /\ pc = "loop"
  /\ retval = None
  /\ calls = <<>>
  /\ ValidatorIdle
  /\ CallIdle
  /\ SharedIdle
  /\ TrackerIdle

\* variant: a failed attempt forgets the best result found so far
AttemptFailed_ResetsBest(r) ==
  /\ pc = "loop"
  /\ HasNext(attempt, max_retries)
  /\ ~ResultTruthy(RawResult[r])
  /\ attempt' = attempt + 1
  /\ calls' = Append(calls, r)
  /\ best_result' = None
  /\ best_valid_count' = 0
  /\ UNCHANGED <<max_retries, strict_validation, pc, retval, validator_vars,
                 call_vars, shared_vars, tracker_vars>>

\* one iteration in which generate_raw returns a falsy result
AttemptFailed(r) ==
  /\ pc = "loop"
  /\ HasNext(attempt, max_retries)
  /\ ~ResultTruthy(RawResult[r])
  /\ attempt' = attempt + 1
  /\ calls' = Append(calls, r)
  /\ UNCHANGED <<max_retries, strict_validation, best_result, best_valid_count,
                 pc, retval, validator_vars, call_vars, shared_vars, tracker_vars>>

\* one iteration in which generate_raw returns a result: post-process, count,
\* track the best, return early or go on; len() of a value that has none
\* raises TypeError out of generate
AttemptScored(r) ==
  /\ pc = "loop"
  /\ HasNext(attempt, max_retries)
  /\ ResultTruthy(RawResult[r])
  /\ attempt' = attempt + 1
  /\ calls' = Append(calls, r)
  /\ IF LenRaises(PostProcessed[r])
     THEN /\ pc' = "raised"
          /\ UNCHANGED <<best_result, best_valid_count, retval>>
     ELSE /\ IF IsBetter(ValidCount[r], best_valid_count)
             THEN /\ best_result' = PostProcessed[r]
                  /\ best_valid_count' = ValidCount[r]
             ELSE UNCHANGED <<best_result, best_valid_count>>
          /\ IF ReturnsNow(ValidCount[r], strict_validation, LengthsOk[r])
             THEN /\ pc' = "returned"
                  /\ retval' = PostProcessed[r]
             ELSE UNCHANGED <<pc, retval>>
  /\ UNCHANGED <<max_retries, strict_validation, validator_vars, call_vars, shared_vars, tracker_vars>>

\* the loop is over: return best_result
Exhausted ==
  /\ pc = "loop"
  /\ ~HasNext(attempt, max_retries)
  /\ pc' = "returned"
  /\ retval' = best_result
  /\ UNCHANGED <<max_retries, strict_validation, attempt, best_result,
                 best_valid_count, calls, validator_vars, call_vars, shared_vars, tracker_vars>>

Next ==
  \/ \E r \in ReplyIds : AttemptFailed(r)
  \/ \E r \in ReplyIds : AttemptScored(r)
  \/ Exhausted

Spec == Init /\ [][Next]_vars

(***************************************************************************)
(* validation.py: one validate call on one validator instance              *)
(***************************************************************************)

\* how far around each edge of a tier's band the lengths of the texts go
Slack == 1

Phrases ==
  <<"Network routing configuration for traffic distribution",
    "F5 load balancer configuration",
    "World-class enterprise solution",
    "REST API endpoint settings",
    "Configure the load balancer",
    "This field specifies the routing policy",
    "Load balancer settings for incoming traffic and",
    "Load-balancer pool settings",
    "Hi",
    "Internationalization configurations",
    "network routing policy for regional traffic",
    "Load balancer configuration for distributing network traffic. "
      \o "Supports multiple algorithms and health checking.">>

FieldNames == {"", "load_balancer", "Network-Routing"}

Filler == " node node node node node node node node node node"
FillerBlock == Filler \o Filler \o Filler \o Filler \o Filler
FillerText == FillerBlock \o FillerBlock

\* phrase, continued with filler words up to n characters (left as it is when
\* it has n or more); the text never ends in a space
Padded(phrase, n) ==
  LET d == n - Len(phrase)
  IN IF d <= 0 THEN phrase
     ELSE IF d % 5 = 1 THEN phrase \o "s" \o SubSeq(FillerText, 1, d - 1)
     ELSE phrase \o SubSeq(FillerText, 1, d)

\* the lengths the texts validated against tier are padded to: 0 leaves the
\* phrase as it is, the others lie around the two edges of the tier's band
LengthsFor(tier) ==
  {0} \cup {get_tier_config(tier).min_chars + d : d \in (0 - Slack)..Slack}
      \cup {get_tier_config(tier).max_chars + d : d \in (0 - Slack)..Slack}

\* the text handed to validate: padded, and with or without surrounding
\* whitespace (a space and U+000B before it, U+001F and a newline after it)
InputText(phrase, n, spaced) ==
  IF spaced THEN " " \o Padded(phrase, n) \o "\n" ELSE Padded(phrase, n)

InitValidate ==
  /\ AdapterIdle
  /\ CallIdle
  /\ SharedIdle
  /\ TrackerIdle
  /\ validator \in {DescriptionValidator(strict, <<>>) : strict \in BOOLEAN}
  /\ v_pc = "call"
  /\ v_tier \in Tiers
  /\ v_field \in FieldNames
  /\ \E k \in 1..Len(Phrases), n \in LengthsFor(v_tier), spaced \in BOOLEAN :
        v_content = InputText(Phrases[k], n, spaced)
  /\ v_result = None

\* validator.validate(v_content, v_tier, v_field) returns
Validate ==
  /\ v_pc = "call"
  /\ v_result' = validate(validator, v_content, v_tier, v_field)
  /\ v_pc' = "done"
  /\ UNCHANGED <<validator, v_content, v_tier, v_field, adapter_vars, call_vars, shared_vars, tracker_vars>>

NextValidate == Validate

SpecValidate == InitValidate /\ [][NextValidate]_vars

(***************************************************************************)
(* models.py: ProductInput and DescriptionResult                           *)
(***************************************************************************)

\* the outcome of a constructor call that raised pydantic's ValidationError
ValidationError == [raised |-> "ValidationError"]

\* ProductInput.features_not_empty raises ValueError on v
FeaturesRejected(v) == Len(v) = 0 \/ \A i \in 1..Len(v) : Strip(v[i]) = ""

\* variant: the features are trimmed but the blank ones are kept
features_not_empty_Unfiltered(v) == [i \in 1..Len(v) |-> Strip(v[i])]

\* ProductInput.features_not_empty returns [f.strip() for f in v if f.strip()]
features_not_empty(v) ==
  SelectSeq([i \in 1..Len(v) |-> Strip(v[i])], LAMBDA f : f # "")

\* ProductInput(name=..., features=..., category=...): the field constraints
\* (min_length=1 on name and on features), then the field validator
ProductInput(name, features, category) ==
  IF Len(name) < 1 \/ Len(features) < 1 \/ FeaturesRejected(features)
  THEN ValidationError
  ELSE [name |-> name, features |-> features_not_empty(features), category |-> category]

\* TierConfig.char_range
char_range(config) == ToString(config.min_chars) \o "-" \o ToString(config.max_chars)

\* DescriptionResult.from_generation
from_generation(tier, content, config, tokens_used) ==
  [tier          |-> tier,
   content       |-> content,
   char_count    |-> Len(content),
   within_limits |-> config.min_chars <= Len(content) /\ Len(content) <= config.max_chars,
   target_range  |-> char_range(config),
   tokens_used   |-> tokens_used]

(***************************************************************************)
(* Direct calls of the pure functions, one call per behaviour              *)
(***************************************************************************)

\* the longest content from_generation is called on
MaxLength == 510

\* the most features a ProductInput is built from
MaxFeatures == 3

W10 == "abcdefghij"
W50 == W10 \o W10 \o W10 \o W10 \o W10
W250 == W50 \o W50 \o W50 \o W50 \o W50
W550 == W250 \o W250 \o W50

\* a text of n characters with no whitespace in it
TextOfLength(n) == SubSeq(W550, 1, n)

\* the values a mapping handed to validate_batch has under key: a text that
\* validates, one that does not, blank text, the empty text, JSON null
BatchValues(key) ==
  CASE key = "short"  -> {StrVal(S_OK), StrVal(S_F5), StrVal("  "), StrVal(""), NullVal}
    [] key = "medium" -> {StrVal(M_OK), StrVal(M_SMALL), StrVal("  "), StrVal(""), NullVal}
    [] key = "long"   -> {StrVal(L_OK), StrVal(L_SMALL), StrVal("  "), StrVal(""), NullVal}
    [] OTHER          -> {StrVal("Routing policy")}

BatchKeys == Tiers \cup {"title"}

\* the mappings handed to validate_batch
BatchInputs ==
  UNION {{d \in [K -> UNION {BatchValues(k) : k \in K}] :
             \A k \in K : d[k] \in BatchValues(k)} : K \in SUBSET BatchKeys}

BatchFieldNames == {"", "network_routing"}

\* the texts handed to apply_synonyms and to noun_first_transform
PostTexts ==
  {"", "Configure", S_VERB, S_OK, "configure the origin pool",
   "Update the routing policy", "Enable health checks for the pool",
   "Disable JSON object caching", "Get set the timeout value",
   "Manage REST API endpoint pools", "List of origin servers",
   "Restart the service after an update", "Create or delete HTTP request rules",
   "HTTP request and http response limits", "Management of regional pools"}

\* the feature strings a ProductInput is built from
\* (the third is U+000B and U+00A0, the last ends in U+001C)
FeatureTexts == {"", "  ", " ", "Fast", " Load balancing\n", "\tScalable"}

FeatureLists == UNION {[1..n -> FeatureTexts] : n \in 0..MaxFeatures}

ProductNames == {"", "Router"}

\* replies and schema arguments of the direct calls of generate_raw
\* (in the last one the only value of three words is split by U+000B and
\* U+001E)
RawReplies ==
  {Replies[r] : r \in ReplyIds}
    \cup {FailReply("nonobject"),
          DataReply(Tiered(StrVal("Loadbalancersettings"), StrVal("Ok then"), StrVal("No")))}
Schemas == {DESCRIPTION_SCHEMA, RequiredOnlySchema, None}

CallArgs(fn) ==
  CASE fn = "validate_batch" ->
         {[self |-> DescriptionValidator(strict, <<>>), descriptions |-> d, field_name |-> f] :
            strict \in BOOLEAN, d \in BatchInputs, f \in BatchFieldNames}
    [] fn = "apply_synonyms" -> {[text |-> t] : t \in PostTexts}
    [] fn = "noun_first_transform" -> {[text |-> t] : t \in PostTexts}
    [] fn = "ProductInput" ->
         {[name |-> n, features |-> v, category |-> None] :
            n \in ProductNames, v \in FeatureLists}
    [] fn = "from_generation" ->
         {[tier |-> t, content |-> TextOfLength(n), config |-> get_tier_config(t),
           tokens_used |-> 0] : t \in Tiers, n \in 0..MaxLength}
    [] fn = "generate_raw" ->
         {[reply |-> r, schema |-> sch] : r \in RawReplies, sch \in Schemas}

Functions ==
  {"validate_batch", "apply_synonyms", "noun_first_transform", "ProductInput",
   "from_generation", "generate_raw"}

InitCall ==
  /\ AdapterIdle
  /\ ValidatorIdle
  /\ SharedIdle
  /\ TrackerIdle
  /\ call_fn \in Functions
  /\ call_args \in CallArgs(call_fn)
  /\ call_pc = "call"
  /\ call_result = None

\* the call returns result
Return(result) ==
  /\ call_pc = "call"
  /\ call_result' = result
  /\ call_pc' = "done"
  /\ UNCHANGED <<call_fn, call_args, adapter_vars, validator_vars, shared_vars, tracker_vars>>

CallValidateBatch ==
  /\ call_fn = "validate_batch"
  /\ Return(validate_batch(call_args.self, call_args.descriptions, call_args.field_name))

CallApplySynonyms ==
  /\ call_fn = "apply_synonyms"
  /\ Return(apply_synonyms(call_args.text))

CallNounFirstTransform ==
  /\ call_fn = "noun_first_transform"
  /\ Return(noun_first_transform(call_args.text))

CallProductInput ==
  /\ call_fn = "ProductInput"
  /\ Return(ProductInput(call_args.name, call_args.features, call_args.category))

CallFromGeneration ==
  /\ call_fn = "from_generation"
  /\ Return(from_generation(call_args.tier, call_args.content, call_args.config,
                            call_args.tokens_used))

CallGenerateRaw ==
  /\ call_fn = "generate_raw"
  /\ Return(generate_raw_schema(call_args.reply, call_args.schema))

NextCall ==
  \/ CallValidateBatch
  \/ CallApplySynonyms
  \/ CallNounFirstTransform
  \/ CallProductInput
  \/ CallFromGeneration
  \/ CallGenerateRaw

SpecCall == InitCall /\ [][NextCall]_vars

(***************************************************************************)
(* Properties of F5XCAdapter.generate (specification Spec)                 *)
(***************************************************************************)

\* validate_descriptions(result).valid_count of each scored attempt's result
BatchValidCount ==
  [r \in ReplyIds |->
     IF Scored(r) THEN valid_count(validate_descriptions(PostProcessed[r], FALSE))
     ELSE 0]

\* the attempts of this call that reached the end of _count_valid
ScoredAttempts == {k \in 1..Len(calls) : Scored(calls[k])}

\* every attempt so far failed (generate_raw returned None)
AllFailed == \A k \in 1..Len(calls) : ~ResultTruthy(RawResult[calls[k]])

\* C1: an attempt whose post-processed result has all three tiers counted
\* valid is the last one: generate has returned that attempt's result and no
\* call to the collaborator follows it.
C1_EarlyExit ==
  \A k \in ScoredAttempts :
     ValidCount[calls[k]] = 3 =>
       /\ k = Len(calls)
       /\ pc = "returned"
       /\ retval = PostProcessed[calls[k]]

\* C1 witness: max_retries = 3, attempt 1 fully valid, returned after one call
C1_Witness ==
  /\ max_retries = 3
  /\ pc = "returned"
  /\ Len(calls) = 1
  /\ ValidCount[calls[1]] = 3
  /\ retval = PostProcessed[calls[1]]

\* C2 (as claimed): generate returns None only if every attempt failed to
\* produce a parseable result.
C2_NoneOnlyIfAllFailed ==
  (pc = "returned" /\ retval = None) => AllFailed

\* C3: a non-null return value is the result of the earliest attempt among
\* those with the highest valid count of the call.
C3_BestIsFirstMax ==
  (pc = "returned" /\ retval # None) =>
    \E k \in ScoredAttempts :
       /\ retval = PostProcessed[calls[k]]
       /\ \A j \in ScoredAttempts : ValidCount[calls[j]] <= ValidCount[calls[k]]
       /\ \A j \in ScoredAttempts : j < k => ValidCount[calls[j]] < ValidCount[calls[k]]

\* C3 witness: two attempts with different results tie at the highest count,
\* below 3, and the earlier one is returned
C3_Witness ==
  /\ pc = "returned"
  /\ retval # None
  /\ \E j, k \in ScoredAttempts :
        /\ j < k
        /\ ValidCount[calls[j]] = ValidCount[calls[k]]
        /\ PostProcessed[calls[j]] # PostProcessed[calls[k]]
        /\ retval = PostProcessed[calls[j]]
        /\ \A i \in ScoredAttempts : ValidCount[calls[i]] <= ValidCount[calls[j]]

\* C4: when every attempt fails, generate makes exactly max_retries calls,
\* then returns None, and does not raise.
C4_AllFail ==
  AllFailed =>
    /\ pc # "raised"
    /\ Len(calls) <= max_retries
    /\ pc = "loop" => best_result = None
    /\ pc = "returned" => (Len(calls) = max_retries /\ retval = None)

\* C4 witness: three failed attempts out of three, None returned
C4_Witness ==
  /\ max_retries = 3
  /\ Len(calls) = 3
  /\ AllFailed
  /\ pc = "returned"
  /\ retval = None

\* generate with its loop scheduled: a step that can be taken is taken
FairSpec == Spec /\ WF_vars(Next)

\* C5: generate leaves its loop, having made at most max_retries calls; every
\* attempt, failed or not, uses up exactly one unit of the budget; a failed
\* attempt leaves the loop running.
C5_Budget ==
  /\ <>(pc # "loop")
  /\ [](Len(calls) = attempt /\ attempt <= max_retries)
  /\ [][/\ pc = "loop"
        /\ pc' = "loop" => (attempt' = attempt + 1 /\ Len(calls') = Len(calls) + 1)
        /\ (Len(calls') > Len(calls) /\ ~ResultTruthy(RawResult[calls'[Len(calls')]]))
             => (pc' = "loop" /\ attempt' = attempt + 1)]_vars

\* C5 witness: a failed attempt followed by a further attempt, within budget
C5_Witness ==
  /\ Len(calls) = 3
  /\ attempt = max_retries
  /\ ~ResultTruthy(RawResult[calls[1]])
  /\ Scored(calls[2])
  /\ ~ResultTruthy(RawResult[calls[3]])
  /\ pc = "returned"

\* C6 (as claimed): the valid count the loop scores an attempt with is
\* validate_batch(result).valid_count.
C6_ScoreIsBatchValidCount ==
  \A k \in ScoredAttempts : ValidCount[calls[k]] = BatchValidCount[calls[k]]

(***************************************************************************)
(* Properties of DescriptionValidator.validate (specification SpecValidate)*)
(***************************************************************************)

\* some banned-term pattern of the instance matches somewhere in text
HasBannedTerm(self, text) ==
  LET ls == Lower(text)
      bs == Boundaries(ls)
  IN \E k \in 1..Len(self.banned_patterns) : FindWord(ls, bs, self.banned_patterns[k])

\* some self-referential pattern of the instance matches somewhere in text
HasSelfReference(self, text) ==
  LET ls == Lower(text)
      bs == Boundaries(ls)
  IN \E k \in 1..Len(self.self_ref_patterns) : FindWord(ls, bs, self.self_ref_patterns[k])

\* the trimmed text starts with the normalised field name
IsCircular(text, field_name) == CircularErrors(Lower(Strip(text)), field_name) # <<>>

\* the trimmed text's length lies in the tier's band, edges included
InBand(text, tier) ==
  /\ get_tier_config(tier).min_chars <= Len(Strip(text))
  /\ Len(Strip(text)) <= get_tier_config(tier).max_chars

\* some entry of the list starts with prefix
HasEntry(list, prefix) == \E k \in 1..Len(list) : StartsWith(list[k], prefix)

\* C7: content in which a banned-term pattern matches is invalid and has a
\* 'Banned term' error, whatever its length, strict mode or not.
C7_BannedInvalid ==
  (v_pc = "done" /\ HasBannedTerm(validator, v_content)) =>
    /\ ~v_result.is_valid
    /\ HasEntry(v_result.errors, "Banned term")

\* C7 witness: a banned term in a text of at least three words whose length is
\* in the band, non-strict: the banned term is the only error
C7_Witness ==
  /\ v_pc = "done"
  /\ ~validator.strict_mode
  /\ HasBannedTerm(validator, v_content)
  /\ InBand(v_content, v_tier)
  /\ v_result.word_count >= 3
  /\ v_result.errors = <<"Banned term: F5">>

\* C8 (as claimed): non-strict, length in the band and no banned term,
\* self-reference or circular definition: valid.
C8_InBandCleanValid ==
  (/\ v_pc = "done"
   /\ ~validator.strict_mode
   /\ InBand(v_content, v_tier)
   /\ ~HasBannedTerm(validator, v_content)
   /\ ~HasSelfReference(validator, v_content)
   /\ ~IsCircular(v_content, v_field))
    => v_result.is_valid

\* C8 (amended): non-strict, length in the band, at least three words and no
\* banned term, self-reference or circular definition: valid.
C8_InBandCleanWordsValid ==
  (/\ v_pc = "done"
   /\ ~validator.strict_mode
   /\ InBand(v_content, v_tier)
   /\ WordCount(Strip(v_content)) >= 3
   /\ ~HasBannedTerm(validator, v_content)
   /\ ~HasSelfReference(validator, v_content)
   /\ ~IsCircular(v_content, v_field))
    => v_result.is_valid

\* C8 witness: such a text, at an edge of its band, given with a field name
\* and with surrounding whitespace, found valid
C8_Witness ==
  /\ v_pc = "done"
  /\ ~validator.strict_mode
  /\ v_field # ""
  /\ v_content # Strip(v_content)
  /\ Len(Strip(v_content)) = get_tier_config(v_tier).max_chars
  /\ WordCount(Strip(v_content)) >= 3
  /\ ~HasBannedTerm(validator, v_content)
  /\ ~HasSelfReference(validator, v_content)
  /\ ~IsCircular(v_content, v_field)
  /\ v_result.is_valid

\* C9: 'Too short' is reported exactly when the trimmed length is below
\* min_chars and 'Too long' exactly when it is above max_chars; never both,
\* and neither at a length equal to min_chars or to max_chars.
C9_StrictInequality ==
  v_pc = "done" =>
    LET n == Len(Strip(v_content))
        config == get_tier_config(v_tier)
    IN /\ HasEntry(v_result.errors, "Too short") <=> n < config.min_chars
       /\ HasEntry(v_result.errors, "Too long") <=> n > config.max_chars
       /\ ~(HasEntry(v_result.errors, "Too short") /\ HasEntry(v_result.errors, "Too long"))
       /\ n \in {config.min_chars, config.max_chars} =>
            ~HasEntry(v_result.errors, "Too short") /\ ~HasEntry(v_result.errors, "Too long")

\* C9 witness: untrimmed text longer than max_chars whose trimmed length is
\* exactly max_chars, with no length error
C9_Witness ==
  /\ v_pc = "done"
  /\ Len(v_content) > get_tier_config(v_tier).max_chars
  /\ v_result.char_count = get_tier_config(v_tier).max_chars
  /\ ~HasEntry(v_result.errors, "Too short")
  /\ ~HasEntry(v_result.errors, "Too long")

\* C10: the strict verdict has no warnings, and its errors are the non-strict
\* verdict's errors followed by the non-strict verdict's warnings; it is valid
\* iff the non-strict verdict is valid and has no warnings.
C10_StrictPromotes ==
  (v_pc = "done" /\ validator.strict_mode) =>
    LET loose == validate([validator EXCEPT !.strict_mode = FALSE],
                          v_content, v_tier, v_field)
    IN /\ v_result.warnings = <<>>
       /\ v_result.errors = loose.errors \o loose.warnings
       /\ v_result.is_valid <=> (loose.is_valid /\ loose.warnings = <<>>)

\* C10 witness: a strict verdict that is invalid only through a promoted
\* warning: the non-strict verdict of the same text is valid with one warning
C10_Witness ==
  /\ v_pc = "done"
  /\ validator.strict_mode
  /\ ~v_result.is_valid
  /\ v_result.warnings = <<>>
  /\ v_result.errors = <<"Starts with verb/article: Configure">>

\* entry is one of the entries of list
Listed(list, entry) == \E k \in 1..Len(list) : list[k] = entry

\* C11: non-strict, a text of at least three words with its length in the
\* band, no banned term and no circular definition is valid with no errors,
\* whatever verb-first, self-referential or complete-thought condition it
\* triggers, and each condition triggered is listed in warnings.
C11_WarningsKeepValid ==
  (/\ v_pc = "done"
   /\ ~validator.strict_mode
   /\ InBand(v_content, v_tier)
   /\ WordCount(Strip(v_content)) >= 3
   /\ ~IsCircular(v_content, v_field)
   /\ ~HasBannedTerm(validator, v_content))
    => LET ls == Lower(Strip(v_content))
           bs == Boundaries(ls)
       IN /\ v_result.is_valid
          /\ v_result.errors = <<>>
          /\ \A k \in 1..Len(BANNED_VERB_STARTS) :
                FindStartWord(ls, CompileStart(BANNED_VERB_STARTS[k]))
                  => Listed(v_result.warnings,
                            "Starts with verb/article: " \o BANNED_VERB_STARTS[k])
          /\ \A k \in 1..Len(SELF_REFERENTIAL) :
                FindWord(ls, bs, Compile(SELF_REFERENTIAL[k]))
                  => Listed(v_result.warnings, "Self-referential: " \o SELF_REFERENTIAL[k])
          /\ ~_is_complete_thought(v_content)
                => Listed(v_result.warnings, "May not be a complete thought")

\* C11 witness: a valid non-strict verdict with a verb/article warning and
\* two self-referential warnings
C11_Witness ==
  /\ v_pc = "done"
  /\ ~validator.strict_mode
  /\ v_result.is_valid
  /\ v_result.errors = <<>>
  /\ v_result.warnings = <<"Starts with verb/article: This",
                           "Self-referential: this field",
                           "Self-referential: specifies the">>

\* str.replace('_', ' ').replace('-', ' ')
Normalised(s) == ReplaceChar(ReplaceChar(s, "_", " "), "-", " ")

\* C12 (as claimed): with a field name given, content whose normalised form
\* (lower case, underscores and hyphens as spaces) starts with or equals the
\* normalised field name gets a 'Circular definition' error.
C12_CircularNormalisesBoth ==
  (/\ v_pc = "done"
   /\ v_field # ""
   /\ StartsWith(Normalised(Lower(Strip(v_content))), Normalised(Lower(v_field))))
    => HasEntry(v_result.errors, "Circular definition")

(***************************************************************************)
(* Properties of the functions called directly (specification SpecCall)    *)
(***************************************************************************)

\* the mapping d has non-empty text under key
HasText(d, key) == key \in DOMAIN d /\ d[key].type = "str" /\ d[key].value # ""

\* C13: validate_batch holds a verdict for a tier iff the mapping has
\* non-empty text under that tier's key, and that verdict is of that text and
\* tier; the other tiers are None, the result has no entry for any other key,
\* and total_count is the number of tiers validated.
C13_NoFabricatedVerdict ==
  (call_pc = "done" /\ call_fn = "validate_batch") =>
    LET d == call_args.descriptions
    IN /\ DOMAIN call_result = Tiers
       /\ \A t \in Tiers : (call_result[t] # None) <=> HasText(d, t)
       /\ \A t \in Tiers :
             HasText(d, t) => /\ call_result[t].tier = t
                              /\ call_result[t].content = Strip(d[t].value)
       /\ total_count(call_result) = Cardinality({t \in Tiers : HasText(d, t)})

\* C13 witness: a mapping with a key that is no tier, no short key, an empty
\* medium text and a long text: one verdict, for long
C13_Witness ==
  /\ call_pc = "done"
  /\ call_fn = "validate_batch"
  /\ DOMAIN call_args.descriptions = {"medium", "long", "title"}
  /\ call_args.descriptions["medium"] = StrVal("")
  /\ call_result["short"] = None
  /\ call_result["medium"] = None
  /\ call_result["long"] # None
  /\ total_count(call_result) = 1

\* text starts with a verb of F5XC_BANNED_VERB_STARTS followed by a space
StartsWithBannedVerb(text) ==
  \E k \in 1..Len(F5XC_BANNED_VERB_STARTS) :
     StartsWith(text, F5XC_BANNED_VERB_STARTS[k] \o " ")

\* C14 (as claimed): apply_synonyms applied to its own output changes nothing.
C14_SynonymsIdempotent ==
  (call_pc = "done" /\ call_fn = "apply_synonyms") =>
    apply_synonyms(call_result) = call_result

\* C15 (as claimed): noun_first_transform applied to its own output changes
\* nothing.
C15_NounFirstIdempotent ==
  (call_pc = "done" /\ call_fn = "noun_first_transform") =>
    noun_first_transform(call_result) = call_result

\* C16 (as claimed): for a text that starts with a banned leading verb and a
\* space, the output of noun_first_transform starts with no verb of the list.
C16_OutputNounFirst ==
  (/\ call_pc = "done"
   /\ call_fn = "noun_first_transform"
   /\ StartsWithBannedVerb(call_args.text))
    => ~StartsWithBannedVerb(call_result)

(***************************************************************************)
(* Further properties of F5XCAdapter.generate (specification Spec)         *)
(***************************************************************************)

\* every tier the result contains has its length in the tier's band
AllTiersInBand(result) ==
  \A key \in Tiers \cap DOMAIN result :
     /\ get_tier_config(key).min_chars <= Len(result[key].value)
     /\ Len(result[key].value) <= get_tier_config(key).max_chars

\* C17: with strict_validation set, an attempt whose post-processed result has
\* every tier it contains within the tier's band is the last one: generate has
\* returned that result, whatever the validator says of its tiers.
C17_StrictEarlyExit ==
  strict_validation =>
    \A k \in ScoredAttempts :
       AllTiersInBand(PostProcessed[calls[k]]) =>
         /\ k = Len(calls)
         /\ pc = "returned"
         /\ retval = PostProcessed[calls[k]]

\* C17 witness: strict, budget 3, the first attempt has every tier in its band
\* and a banned term in one of them; it is returned after one call
C17_Witness ==
  /\ strict_validation
  /\ max_retries = 3
  /\ Len(calls) = 1
  /\ Scored(calls[1])
  /\ AllTiersInBand(PostProcessed[calls[1]])
  /\ BatchValidCount[calls[1]] < 3
  /\ pc = "returned"
  /\ retval = PostProcessed[calls[1]]

\* C18 (as claimed): a non-null result returned by generate has at least one
\* tier valid under validate_descriptions.
C18_ReturnedHasValidTier ==
  (pc = "returned" /\ retval # None) =>
    valid_count(validate_descriptions(retval, FALSE)) >= 1

(***************************************************************************)
(* Further properties of the functions called directly (SpecCall)          *)
(***************************************************************************)

\* the validator validate_descriptions builds by default
DefaultValidator == DescriptionValidator(FALSE, <<>>)

\* C19: for every tier and length n, from_generation's within_limits and the
\* adapter's _count_valid and _validate_lengths accept a text of n characters
\* exactly when the validator reports neither 'Too short' nor 'Too long'.
C19_BandsAgree ==
  (call_pc = "done" /\ call_fn = "from_generation") =>
    LET tier == call_args.tier
        one == [key \in {tier} |-> StrVal(call_args.content)]
        verdict == validate(DefaultValidator, call_args.content, tier, "")
        layer3 == /\ ~HasEntry(verdict.errors, "Too short")
                  /\ ~HasEntry(verdict.errors, "Too long")
    IN /\ call_result.within_limits <=> layer3
       /\ (_count_valid(one) = 1) <=> layer3
       /\ _validate_lengths(one) <=> layer3

\* C19 witness: a text of exactly max_chars characters of the medium tier,
\* accepted by from_generation
C19_Witness ==
  /\ call_pc = "done"
  /\ call_fn = "from_generation"
  /\ call_args.tier = "medium"
  /\ call_result.char_count = get_tier_config("medium").max_chars
  /\ call_result.within_limits

\* C20: a ProductInput built from no feature, or from blank features only, is
\* rejected with a validation error; one that is built holds at least one
\* feature, each trimmed and non-empty: the non-blank ones given, in order.
C20_FeaturesNotEmpty ==
  (call_pc = "done" /\ call_fn = "ProductInput") =>
    LET v == call_args.features
        kept == {i \in 1..Len(v) : Strip(v[i]) # ""}
    IN /\ kept = {} => call_result = ValidationError
       /\ call_result # ValidationError =>
            /\ Len(call_result.features) >= 1
            /\ Len(call_result.features) = Cardinality(kept)
            /\ \A k \in 1..Len(call_result.features) :
                  /\ call_result.features[k] # ""
                  /\ Strip(call_result.features[k]) = call_result.features[k]
            /\ \A i \in kept :
                  call_result.features[Cardinality({j \in kept : j <= i})] = Strip(v[i])

\* C20 witness: a blank feature dropped, an untrimmed one trimmed, order kept
C20_Witness ==
  /\ call_pc = "done"
  /\ call_fn = "ProductInput"
  /\ call_args.features = <<"  ", " Load balancing\n", "Fast">>
  /\ call_result # ValidationError
  /\ call_result.features = <<"Load balancing", "Fast">>

(***************************************************************************)
(* validation.py: several DescriptionValidator instances, and concurrent   *)
(* validate calls on them, one layer at a time                             *)
(***************************************************************************)

\* the most instances constructed in one behaviour
MaxInstances == 2

\* the concurrent callers
Callers == {"a", "b"}

\* the arguments the instances are constructed with
ConstructorArgs ==
  {[strict_mode |-> FALSE, custom_banned_terms |-> <<>>],
   [strict_mode |-> TRUE, custom_banned_terms |-> <<"routing", "origin pool", "a\\b">>]}

\* the arguments of the validate calls (the first text starts with a space,
\* U+000B and a space)
SharedInputs ==
  {[text |-> "  This field specifies the routing policy of a\\b \n", tier |-> "short",
    field_name |-> ""],
   [text |-> "Origin pool settings", tier |-> "short", field_name |-> "origin_pool"]}

\* DescriptionValidator.__init__ reading the class attribute as it is now:
\* the instance's lists are new lists, the custom terms go to the instance's
\* own banned_patterns
NewValidator(terms, strict_mode, custom_banned_terms) ==
  [DescriptionValidator(strict_mode, custom_banned_terms)
     EXCEPT !.banned_patterns = CompileAll(terms) \o CompileAllCustom(custom_banned_terms)]

\* variant: the custom terms are appended to the class attribute
ClassAfterInit_Extended(terms, custom_banned_terms) == terms \o custom_banned_terms

\* the class attribute BANNED_TERMS after __init__: it is read, never written
ClassAfterInit(terms, custom_banned_terms) == terms

\* the frame of a caller that has not called validate
IdleFrame ==
  [pc |-> "idle", self |-> 0, text |-> "", content |-> "", tier |-> "short",
   field_name |-> "", errors |-> <<>>, warnings |-> <<>>, result |-> None]

\* variant: one errors list is shared by the calls under way
LocalErrors_Shared(fs, c) ==
  LET others == {d \in Callers \ {c} : fs[d].pc \notin {"idle", "done"}}
  IN IF others = {} THEN fs[c].errors
     ELSE fs[CHOOSE d \in others : TRUE].errors

\* errors = []: the list caller c's frame appends to is its own
LocalErrors(fs, c) == fs[c].errors

InitShared ==
  /\ AdapterIdle
  /\ ValidatorIdle
  /\ CallIdle
  /\ TrackerIdle
  /\ class_banned_terms = BANNED_TERMS
  /\ instances = <<>>
  /\ frames = [c \in Callers |-> IdleFrame]

\* DescriptionValidator(strict_mode=..., custom_banned_terms=...)
Construct(a) ==
  /\ Len(instances) < MaxInstances
  /\ instances' = Append(instances,
                         [args |-> a,
                          obj  |-> NewValidator(class_banned_terms, a.strict_mode,
                                                a.custom_banned_terms)])
  /\ class_banned_terms' = ClassAfterInit(class_banned_terms, a.custom_banned_terms)
  /\ UNCHANGED <<frames, adapter_vars, validator_vars, call_vars, tracker_vars>>

\* caller c enters instances[i].validate(text, tier, field_name): the two
\* lists are created, the content is trimmed
Call(c, i, inp) ==
  /\ frames[c].pc = "idle"
  /\ i \in 1..Len(instances)
  /\ frames' = [frames EXCEPT ![c] =
                  [pc |-> "layer1", self |-> i, text |-> inp.text,
                   content |-> Strip(inp.text), tier |-> inp.tier,
                   field_name |-> inp.field_name, errors |-> <<>>,
                   warnings |-> <<>>, result |-> None]]
  /\ UNCHANGED <<class_banned_terms, instances, adapter_vars, validator_vars,
                 call_vars, tracker_vars>>

\* the frame of caller c after the layer its pc names
AfterLayer(fs, c, self) ==
  LET f == fs[c]
      ls == Lower(f.content)
      bs == Boundaries(ls)
      errors == LocalErrors(fs, c)
  IN CASE f.pc = "layer1" ->
            [f EXCEPT !.errors = errors \o BannedErrors(self, ls, bs), !.pc = "layer1b"]
       [] f.pc = "layer1b" ->
            [f EXCEPT !.warnings = @ \o VerbWarnings(self, ls), !.pc = "layer2"]
       [] f.pc = "layer2" ->
            [f EXCEPT !.warnings = @ \o SelfRefWarnings(self, ls, bs), !.pc = "layer3"]
       [] f.pc = "layer3" ->
            [f EXCEPT !.errors = errors \o LengthErrors(Len(f.content), get_tier_config(f.tier))
                                        \o WordErrors(WordCount(f.content)),
                      !.pc = "layer4"]
       [] f.pc = "layer4" ->
            [f EXCEPT !.errors = errors \o CircularErrors(ls, f.field_name), !.pc = "layer5"]
       [] f.pc = "layer5" ->
            [f EXCEPT !.warnings = @ \o ThoughtWarnings(f.content), !.pc = "strict"]
       [] f.pc = "strict" ->
            LET final == PromoteWarnings(self.strict_mode, errors, f.warnings)
            IN [f EXCEPT !.errors = final.errors, !.warnings = final.warnings,
                         !.pc = "done",
                         !.result = [is_valid   |-> Len(final.errors) = 0,
                                     tier       |-> f.tier,
                                     content    |-> f.content,
                                     char_count |-> Len(f.content),
                                     word_count |-> WordCount(f.content),
                                     errors     |-> final.errors,
                                     warnings   |-> final.warnings]]

\* caller c's validate call runs its next layer, or returns
Layer(c) ==
  /\ frames[c].pc \notin {"idle", "done"}
  /\ frames' = [frames EXCEPT ![c] = AfterLayer(frames, c, instances[frames[c].self].obj)]
  /\ UNCHANGED <<class_banned_terms, instances, adapter_vars, validator_vars,
                 call_vars, tracker_vars>>

NextShared ==
  \/ \E a \in ConstructorArgs : Construct(a)
  \/ \E c \in Callers, i \in 1..MaxInstances, inp \in SharedInputs : Call(c, i, inp)
  \/ \E c \in Callers : Layer(c)

SpecShared == InitShared /\ [][NextShared]_vars

(***************************************************************************)
(* Properties of instances and concurrent calls (specification SpecShared) *)
(***************************************************************************)

\* the instance each constructor call builds in a program with no other one
SoloInstance ==
  [a \in ConstructorArgs |-> DescriptionValidator(a.strict_mode, a.custom_banned_terms)]

\* the verdict of each validate call on such an instance, run alone
SoloVerdict ==
  [a \in ConstructorArgs |->
     [inp \in SharedInputs |-> validate(SoloInstance[a], inp.text, inp.tier, inp.field_name)]]

\* the arguments of the validate call of frame f
InputOf(f) == [text |-> f.text, tier |-> f.tier, field_name |-> f.field_name]

\* C21: constructing an instance with custom banned terms leaves the class's
\* BANNED_TERMS as it was; every instance, built before or after, has the
\* patterns it has when it is the only instance, and returns the verdicts it
\* returns then.
C21_CustomTermsPrivate ==
  /\ class_banned_terms = BANNED_TERMS
  /\ \A i \in 1..Len(instances) : instances[i].obj = SoloInstance[instances[i].args]
  /\ \A c \in Callers :
        frames[c].pc = "done" =>
          frames[c].result = SoloVerdict[instances[frames[c].self].args][InputOf(frames[c])]

\* C21 witness: an instance with custom terms built first, a default one
\* after it; the same text is invalid for the first by a custom term and
\* valid for the second
C21_Witness ==
  /\ Len(instances) = 2
  /\ instances[1].args.custom_banned_terms # <<>>
  /\ instances[2].args.custom_banned_terms = <<>>
  /\ frames["a"].pc = "done" /\ frames["a"].self = 1
  /\ frames["b"].pc = "done" /\ frames["b"].self = 2
  /\ frames["a"].text = frames["b"].text
  /\ Listed(frames["a"].result.errors, "Banned term: routing")
  /\ frames["b"].result.is_valid

\* C22: a validate call that ran interleaved with others on the same
\* instance returns the verdict it returns when run alone, and no step of a
\* call changes an instance or the class's table.
C22_ConcurrentCallsPure ==
  /\ [](\A c \in Callers :
          frames[c].pc = "done" =>
            frames[c].result = validate(instances[frames[c].self].obj, frames[c].text,
                                        frames[c].tier, frames[c].field_name))
  /\ [][frames' # frames =>
          (instances' = instances /\ class_banned_terms' = class_banned_terms)]_vars

\* C22 witness: two calls on one instance with different texts; one has
\* returned an invalid verdict while the other is between two layers with a
\* warning of its own
C22_Witness ==
  /\ frames["a"].pc = "done"
  /\ frames["b"].pc = "layer3"
  /\ frames["a"].self = frames["b"].self
  /\ frames["a"].text # frames["b"].text
  /\ ~frames["a"].result.is_valid
  /\ frames["b"].warnings # <<>>

(***************************************************************************)
(* Further properties of the retry loop (specification Spec)               *)
(***************************************************************************)

\* what the claim says of one attempt's raw result: same keys, every string
\* value with the synonyms applied, then the noun-first transform, then
\* trimmed
ProcessedAsClaimed ==
  [r \in ReplyIds |->
     IF ResultTruthy(RawResult[r])
     THEN [key \in DOMAIN RawResult[r] |->
             LET v == RawResult[r][key]
             IN  IF v.type = "str"
                 THEN StrVal(Strip(noun_first_transform(apply_synonyms(v.value))))
                 ELSE v]
     ELSE None]

\* C23: every non-null value generate returns is the post-processed raw
\* result of one attempt of this call: the same keys, each string value with
\* synonyms applied, then the noun-first transform, then trimmed.
C23_ReturnIsPostProcessedAttempt ==
  (pc = "returned" /\ retval # None) =>
     \E k \in 1..Len(calls) :
        /\ ResultTruthy(RawResult[calls[k]])
        /\ retval = ProcessedAsClaimed[calls[k]]
        /\ DOMAIN retval = DOMAIN RawResult[calls[k]]

\* C23 witness: generate returned, after more than one attempt, a value that
\* is the raw result of none of them
C23_Witness ==
  /\ pc = "returned"
  /\ retval # None
  /\ Len(calls) >= 2
  /\ \A k \in 1..Len(calls) : retval # RawResult[calls[k]]

\* C24: a failed attempt (exception, empty reply, parse or sanity failure)
\* leaves best_result and best_valid_count as they were, and the loop goes on
\* to the next attempt.
C24_FailedAttemptKeepsBest ==
  [][(\E r \in ReplyIds : calls' = Append(calls, r) /\ ~ResultTruthy(RawResult[r])) =>
        /\ best_result' = best_result
        /\ best_valid_count' = best_valid_count
        /\ attempt' = attempt + 1
        /\ pc' = "loop"]_vars

\* C24 witness: a scored attempt set the best, a failed attempt followed it,
\* and the loop is still running with that best
C24_Witness ==
  /\ pc = "loop"
  /\ Len(calls) = 2
  /\ Scored(calls[1])
  /\ ValidCount[calls[1]] \in 1..2
  /\ ~ResultTruthy(RawResult[calls[2]])
  /\ best_result = PostProcessed[calls[1]]
  /\ best_valid_count = ValidCount[calls[1]]

(***************************************************************************)
(* Properties of generate_raw (specification SpecCall)                     *)
(***************************************************************************)

\* C25: generate_raw, called with a schema that lists required keys, returns
\* None or a mapping that has every required key.  A schema with a
\* "required" list and no "properties" key gets no key check at all.
C25_NoPartialMapping ==
  (/\ call_fn = "generate_raw"
   /\ call_pc = "done"
   /\ call_args.schema # None
   /\ call_result # None) =>
     \A k \in 1..Len(call_args.schema.required) :
        call_args.schema.required[k] \in DOMAIN call_result

(***************************************************************************)
(* Further properties of the retry loop, continued (specification Spec)    *)
(***************************************************************************)

\* C26: during the loop best_valid_count is in 0..3 and never decreases;
\* best_result is non-null exactly when best_valid_count > 0, and is then
\* the post-processed result of an attempt with exactly that count.
C26_LoopInvariant ==
  /\ [](/\ best_valid_count \in 0..3
        /\ (best_result # None <=> best_valid_count > 0)
        /\ (best_result # None =>
              \E k \in ScoredAttempts :
                 /\ best_result = PostProcessed[calls[k]]
                 /\ ValidCount[calls[k]] = best_valid_count))
  /\ [][best_valid_count' >= best_valid_count]_vars

\* C26 witness: the best was raised twice, and a later attempt with a lower
\* count did not replace it
C26_Witness ==
  /\ Len(calls) = 3
  /\ Scored(calls[1]) /\ Scored(calls[2]) /\ Scored(calls[3])
  /\ ValidCount[calls[1]] = 1
  /\ ValidCount[calls[2]] = 2
  /\ ValidCount[calls[3]] = 0
  /\ best_valid_count = 2
  /\ best_result = PostProcessed[calls[2]]

\* C27: generate does not raise when a tier of a parsed result maps to a
\* value that is not a string (JSON null or a number); the tier is just not
\* counted.  The loop's len() of such a value raises TypeError.
C27_NonStringNeverRaises == pc # "raised"

\* F5XCAdapter.generate as a function of its arguments and of the replies
\* the collaborator gives, in order: how the call ends, what it returns and
\* how many collaborator calls it made ("loop": the replies ran out first)
RECURSIVE GenerateFrom(_, _, _, _, _, _)
GenerateFrom(strict, limit, replies, n, best, best_count) ==
  IF ~HasNext(n, limit)
  THEN [pc |-> "returned", retval |-> best, calls |-> n]
  ELSE IF n >= Len(replies)
  THEN [pc |-> "loop", retval |-> None, calls |-> n]
  ELSE LET r == replies[n + 1]
       IN  IF ~ResultTruthy(RawResult[r])
           THEN GenerateFrom(strict, limit, replies, n + 1, best, best_count)
           ELSE IF LenRaises(PostProcessed[r])
           THEN [pc |-> "raised", retval |-> None, calls |-> n + 1]
           ELSE IF ReturnsNow(ValidCount[r], strict, LengthsOk[r])
           THEN [pc |-> "returned", retval |-> PostProcessed[r], calls |-> n + 1]
           ELSE IF IsBetter(ValidCount[r], best_count)
           THEN GenerateFrom(strict, limit, replies, n + 1, PostProcessed[r], ValidCount[r])
           ELSE GenerateFrom(strict, limit, replies, n + 1, best, best_count)

generate(strict, limit, replies) ==
  GenerateFrom(strict, limit, replies, 0, None, InitialBestCount)

\* C28: every result the loop scores has all three tier keys, and then
\* strict_validation changes nothing a caller can observe: on the same
\* replies, the call with the flag flipped ends the same way, returns the
\* same value and makes the same number of collaborator calls.
C28_StrictFlagUnobservable ==
  /\ \A k \in ScoredAttempts : Tiers \subseteq DOMAIN PostProcessed[calls[k]]
  /\ pc \in {"returned", "raised"} =>
       /\ generate(strict_validation, max_retries, calls)
            = [pc |-> pc, retval |-> retval, calls |-> Len(calls)]
       /\ generate(~strict_validation, max_retries, calls)
            = [pc |-> pc, retval |-> retval, calls |-> Len(calls)]

\* C28 witness: a strict call whose first attempt had two tiers in their
\* bands went on, and returned early on a later attempt
C28_Witness ==
  /\ strict_validation
  /\ pc = "returned"
  /\ Len(calls) = 2
  /\ max_retries = 3
  /\ Scored(calls[1]) /\ ValidCount[calls[1]] = 2
  /\ Scored(calls[2]) /\ LengthsOk[calls[2]]
  /\ retval = PostProcessed[calls[2]]

(***************************************************************************)
(* tracking.py: ExperimentRun, ExperimentMatrix, ResultTracker             *)
(***************************************************************************)

\* the most runs a matrix is grown to, and the most times it is loaded
MaxRuns == 2
MaxLoads == 1

\* DescriptionResult, by its within_limits field; GenerationOutput, by its
\* descriptions dict
Desc(b) == [within_limits |-> b]
Output(d) == [descriptions |-> d]

\* the results lists that runs are finished with
RunResults ==
  { <<>>,
    << Output([short |-> Desc(FALSE), medium |-> Desc(FALSE), long |-> Desc(FALSE)]) >>,
    << Output([short |-> Desc(TRUE), medium |-> Desc(FALSE)]) >>,
    << Output([short |-> Desc(TRUE), medium |-> Desc(TRUE), long |-> Desc(FALSE)]),
       Output([short |-> Desc(FALSE), medium |-> Desc(FALSE), long |-> Desc(TRUE)]) >>,
    << Output([short |-> Desc(TRUE), medium |-> Desc(TRUE), long |-> Desc(TRUE)]) >> }

\* a float quotient of two counts, as the fraction in lowest terms: equal
\* quotients are equal floats
RECURSIVE GCD(_, _)
GCD(a, b) == IF b = 0 THEN a ELSE GCD(b, a % b)

Divide(a, b) == <<a \div GCD(a, b), b \div GCD(a, b)>>

\* the float 0.0
Zero == <<0, 1>>

\* a > b and a >= b on floats
Greater(a, b) == a[1] * b[2] > b[1] * a[2]

\* the descriptions of a results list whose within_limits is flag, in all or
\* of one tier
RECURSIVE Tally(_, _, _)
Tally(results, tiers, flag) ==
  IF results = <<>> THEN 0
  ELSE Cardinality({t \in DOMAIN Head(results).descriptions \cap tiers :
                      Head(results).descriptions[t].within_limits = flag})
       + Tally(Tail(results), tiers, flag)

\* ExperimentRun._calculate_metrics: the counters are incremented from the
\* values the fields hold; tier_metrics by its valid and invalid entries
_calculate_metrics(self) ==
  LET valid   == self.valid_count + Tally(self.results, Tiers, TRUE)
      invalid == self.invalid_count + Tally(self.results, Tiers, FALSE)
      total   == self.total_generations + Tally(self.results, Tiers, TRUE)
                                        + Tally(self.results, Tiers, FALSE)
      seen    == {t \in Tiers : Tally(self.results, {t}, TRUE)
                                 + Tally(self.results, {t}, FALSE) > 0}
  IN  [self EXCEPT
         !.valid_count = valid,
         !.invalid_count = invalid,
         !.total_generations = total,
         !.validity_rate = IF total > 0 THEN Divide(valid, total) ELSE @,
         !.tier_metrics =
            [t \in seen \cup DOMAIN self.tier_metrics |->
               IF t \in seen
               THEN [valid |-> Tally(self.results, {t}, TRUE),
                     invalid |-> Tally(self.results, {t}, FALSE)]
               ELSE self.tier_metrics[t]]]

\* ExperimentRun(run_id=..., results=...): the defaults of the other fields,
\* then model_post_init
ExperimentRun(run_id, results) ==
  _calculate_metrics([run_id |-> run_id,
                      results |-> results,
                      total_generations |-> 0,
                      valid_count |-> 0,
                      invalid_count |-> 0,
                      validity_rate |-> Zero,
                      tier_metrics |-> [t \in {} |-> 0]])

\* ExperimentMatrix()
ExperimentMatrix == [runs |-> <<>>, best_run_id |-> None, best_validity_rate |-> Zero]

\* variant: a run that ties the best rate becomes the best run
IsBestRun_OrEqual(rate, best) == ~Greater(best, rate)

\* if run.validity_rate > self.best_validity_rate
IsBestRun(rate, best) == Greater(rate, best)

\* ExperimentMatrix.add_run
add_run(self, run) ==
  [runs |-> Append(self.runs, run),
   best_validity_rate |-> IF IsBestRun(run.validity_rate, self.best_validity_rate)
                          THEN run.validity_rate ELSE self.best_validity_rate,
   best_run_id |-> IF IsBestRun(run.validity_rate, self.best_validity_rate)
                   THEN run.run_id ELSE self.best_run_id]

\* cls.model_validate(data): every field from the data, and model_post_init
\* of every ExperimentRun built from it
model_validate(data) ==
  [data EXCEPT !.runs = [i \in 1..Len(data.runs) |-> _calculate_metrics(data.runs[i])]]

\* ExperimentMatrix.load: file is None when the path does not exist
load(stored) == IF stored = None THEN ExperimentMatrix ELSE model_validate(stored)

\* ResultTracker.start_run: run_{len(runs) + 1:03d}_{timestamp}, by its number
\* (the timestamp is left out: ids with one number stand for ids made in one
\* second); the tracker is left as it is
start_run(self) == [number |-> Len(self.runs) + 1]

\* ResultTracker(path), no file at the path yet
InitTracker ==
  /\ AdapterIdle
  /\ ValidatorIdle
  /\ CallIdle
  /\ SharedIdle
  /\ matrix = load(None)
  /\ file = None
  /\ tracker_op = "init"
  /\ loads = 0
  /\ started = {}

\* run_id = tracker.start_run(...): the id goes to the caller
StartRun ==
  /\ Len(matrix.runs) < MaxRuns
  /\ started' = started \cup {start_run(matrix)}
  /\ tracker_op' = "start_run"
  /\ UNCHANGED <<matrix, file, loads, adapter_vars, validator_vars, call_vars, shared_vars>>

\* tracker.finish_run(run_id, ..., results) with an id start_run returned,
\* whatever was started or finished since
FinishRun(run_id, results) ==
  /\ Len(matrix.runs) < MaxRuns
  /\ matrix' = add_run(matrix, ExperimentRun(run_id, results))
  /\ tracker_op' = "finish_run"
  /\ UNCHANGED <<file, loads, started, adapter_vars, validator_vars, call_vars,
                 shared_vars>>

\* ResultTracker.save
Save ==
  /\ file' = matrix
  /\ tracker_op' = "save"
  /\ UNCHANGED <<matrix, loads, started, adapter_vars, validator_vars, call_vars,
                 shared_vars>>

\* ResultTracker(path) again: the matrix is loaded from the file
Load ==
  /\ loads < MaxLoads
  /\ matrix' = load(file)
  /\ loads' = loads + 1
  /\ tracker_op' = "load"
  /\ UNCHANGED <<file, started, adapter_vars, validator_vars, call_vars, shared_vars>>

NextTracker ==
  \/ StartRun
  \/ \E run_id \in started, results \in RunResults : FinishRun(run_id, results)
  \/ Save
  \/ Load

SpecTracker == InitTracker /\ [][NextTracker]_vars

(***************************************************************************)
(* Properties of the experiment matrix (specification SpecTracker)         *)
(***************************************************************************)

\* the number of descriptions across a run's results
NumDescriptions(results) == Tally(results, Tiers, TRUE) + Tally(results, Tiers, FALSE)

\* C29: after ExperimentMatrix.load every run has the valid_count,
\* invalid_count and total_generations it had when the matrix was saved, and
\* total_generations = valid_count + invalid_count = the number of
\* descriptions of the run.  model_post_init runs again on the loaded run and
\* adds the descriptions to the loaded counters.
C29_LoadKeepsCounters ==
  (tracker_op = "load" /\ file # None) =>
     /\ Len(matrix.runs) = Len(file.runs)
     /\ \A i \in 1..Len(matrix.runs) :
          /\ matrix.runs[i].valid_count = file.runs[i].valid_count
          /\ matrix.runs[i].invalid_count = file.runs[i].invalid_count
          /\ matrix.runs[i].total_generations = file.runs[i].total_generations
          /\ matrix.runs[i].total_generations
               = matrix.runs[i].valid_count + matrix.runs[i].invalid_count
          /\ matrix.runs[i].total_generations = NumDescriptions(matrix.runs[i].results)

\* the runs no other run of the matrix beats, and the earliest of them
TopRuns(runs) ==
  {i \in 1..Len(runs) :
     \A j \in 1..Len(runs) : ~Greater(runs[j].validity_rate, runs[i].validity_rate)}

Earliest(S) == CHOOSE i \in S : \A j \in S : i <= j

\* C30 as stated: best_validity_rate is the largest validity_rate of the
\* runs added and, with at least one run, best_run_id is the run_id of the
\* earliest run that has it.
C30_BestIsEarliestMax ==
  Len(matrix.runs) >= 1 =>
     /\ matrix.best_validity_rate = matrix.runs[Earliest(TopRuns(matrix.runs))].validity_rate
     /\ matrix.best_run_id = matrix.runs[Earliest(TopRuns(matrix.runs))].run_id

\* C30, amended: best_validity_rate is the largest validity_rate of the runs
\* added (0.0 with no run); best_run_id is the run_id of the earliest run
\* that has it when that rate is above 0.0, and None when no run has a rate
\* above 0.0.
C30_BestIsEarliestPositiveMax ==
  /\ Len(matrix.runs) = 0 => matrix.best_validity_rate = Zero
  /\ Len(matrix.runs) >= 1 =>
       matrix.best_validity_rate = matrix.runs[Earliest(TopRuns(matrix.runs))].validity_rate
  /\ IF Greater(matrix.best_validity_rate, Zero)
     THEN matrix.best_run_id = matrix.runs[Earliest(TopRuns(matrix.runs))].run_id
     ELSE matrix.best_run_id = None

\* C30 witness: two runs with the same rate above 0.0 from different
\* counts; the first of them is the best run
C30_Witness ==
  /\ tracker_op = "finish_run"
  /\ loads = 0
  /\ Len(matrix.runs) = 2
  /\ matrix.runs[1].validity_rate = matrix.runs[2].validity_rate
  /\ matrix.runs[1].total_generations # matrix.runs[2].total_generations
  /\ Greater(matrix.runs[1].validity_rate, Zero)
  /\ matrix.best_run_id = matrix.runs[1].run_id
  /\ matrix.best_run_id # matrix.runs[2].run_id
=============================================================================
